---------------------------- MODULE Spec2Model ----------------------------
(***************************************************************************)
(* The terminal state machine of alacritty: Term (src/src/term.rs), the    *)
(* RenderGrid guard and the handler interface it implements.               *)
(*                                                                         *)
(* Every Term operation is an operator from a Term record to a Term        *)
(* record, translated statement by statement from term.rs.  A panic is the *)
(* field `aborted` leaving "no": the process is gone and no operation runs *)
(* afterwards.  Grid, Row, Line, Column and Cursor live in grid.rs and     *)
(* index.rs, which are not among the source files; they are modelled from  *)
(* sections 3, 4.A and 4.C of the specification.                           *)
(***************************************************************************)
EXTENDS Integers, Sequences, FiniteSets, TLC

VARIABLES
    term,       \* the Term object (term.rs:149-196)
    budget,     \* number of operations the run may still apply
    lock,       \* who holds the Term: "free", "parser" or "renderer"
    render,     \* the live RenderGrid, if any (term.rs:32-36)
    font        \* the TOKEN counter of FontKey::next and the keys handed out

vars == <<term, budget, lock, render, font>>

---------------------------------------------------------------------------
(* Bounds of the model *)

\* Largest line, column or count argument a handler call carries.
MaxArg == 2

\* Largest pixel width and height given to Term::new and Term::resize.
MaxPx == 5

\* Longest sequence of operations of one run.
MaxCalls == 2

\* Pixel size of one cell given to Term::new (cell_width = cell_height).
CellSize == 2

Args == 0 .. MaxArg

Pixels == {p \in 0 .. MaxPx : p % CellSize = 0 \/ p = MaxPx}

Chars == {"a", "b"}

---------------------------------------------------------------------------
(* index.rs: Line and Column, unsigned with saturating subtraction *)

Sub(a, b) == IF a >= b THEN a - b ELSE 0

Min(a, b) == IF a <= b THEN a ELSE b

\* term.rs:71-79
limit(val, min, max) ==
    IF val < min THEN min ELSE IF val > max THEN max ELSE val

---------------------------------------------------------------------------
(* Cell (term.rs:81-123) and the colours *)

DefaultRgb == "rgb0"        \* Rgb::default()
ConfigFg == "fg"            \* config.fg_color()
ConfigBg == "bg"            \* config.bg_color()
SpecRgb == "rgb"            \* a colour given by ForegroundSpec/BackgroundSpec

\* The named colours that index the palette
NamedColors ==
    {"Black", "Red", "Green", "Yellow", "Blue", "Magenta", "Cyan", "White",
     "BrightBlack", "BrightRed", "BrightGreen", "BrightYellow", "BrightBlue",
     "BrightMagenta", "BrightCyan", "BrightWhite"}

\* self.colors[named_color as usize]: the palette entry of a named colour,
\* config.color_list() (term.rs:193, 284)
colors(named_color) == named_color

Flags == {"INVERSE", "BOLD", "ITALIC", "UNDERLINE"}

\* Cell::new (term.rs:102-109)
CellNew(c) == [c |-> c, fg |-> DefaultRgb, bg |-> DefaultRgb, flags |-> {}]

\* mem::swap(&mut cell.fg, &mut cell.bg) (term.rs:42, 57)
SwapFgBg(cell) == [cell EXCEPT !.fg = cell.bg, !.bg = cell.fg]

---------------------------------------------------------------------------
(* Grid (grid.rs), from sections 3 and 4.C of the specification.           *)
(* A grid is [lines, cols, raw]: raw[l + 1][c + 1] is the cell at line l,  *)
(* column c.                                                               *)

GridNew(lines, cols, template) ==
    [lines |-> lines, cols |-> cols,
     raw |-> [l \in 1 .. lines |-> [c \in 1 .. cols |-> template]]]

\* grid.contains(cursor)
GridContains(g, cur) == cur.line < g.lines /\ cur.col < g.cols

\* grid[cursor]
GridCell(g, cur) == g.raw[cur.line + 1][cur.col + 1]

GridSetCell(g, cur, cell) ==
    [g EXCEPT !.raw[cur.line + 1][cur.col + 1] = cell]

\* A slice start..end of a sequence of length len is in bounds.
SliceOk(start, end, len) == start <= end /\ end <= len

\* row[start..end] with every cell reset to the template
RowReset(row, start, end, template) ==
    [c \in 1 .. Len(row) |->
        IF start < c /\ c <= end THEN template ELSE row[c]]

\* grid.clear_region(start..end, |c| c.reset(&template))
GridClearRegion(g, start, end, template) ==
    [g EXCEPT !.raw =
        [l \in 1 .. g.lines |->
            IF start < l /\ l <= end
            THEN [c \in 1 .. g.cols |-> template]
            ELSE g.raw[l]]]

\* grid.clear(|c| c.reset(&template))
GridClear(g, template) == GridClearRegion(g, 0, g.lines, template)

\* scroll_up([s, e), n): rows [s+n, e) move to [s, e-n); rows [e-n, e) are
\* left untouched (section 4.C).
GridScrollUpOk(g, s, e, n) == s + n >= e \/ e <= g.lines

GridScrollUp(g, s, e, n) ==
    [g EXCEPT !.raw =
        [l \in 1 .. g.lines |->
            IF s < l /\ l + n <= e THEN g.raw[l + n] ELSE g.raw[l]]]

\* scroll_down([s, e), n), symmetric: rows [s, e-n) move to [s+n, e); rows
\* [s, s+n) are left untouched.
GridScrollDownOk(g, s, e, n) == s + n >= e \/ e <= g.lines

GridScrollDown(g, s, e, n) ==
    [g EXCEPT !.raw =
        [l \in 1 .. g.lines |->
            IF s + n < l /\ l <= e THEN g.raw[l - n] ELSE g.raw[l]]]

\* grid.resize(lines, cols, template): rows are added or removed at the
\* bottom, columns at the right; top-left content is preserved.
GridResize(g, lines, cols, template) ==
    [lines |-> lines, cols |-> cols,
     raw |-> [l \in 1 .. lines |->
                [c \in 1 .. cols |->
                    IF l <= g.lines /\ c <= g.cols
                    THEN g.raw[l][c] ELSE template]]]

---------------------------------------------------------------------------
(* SizeInfo (term.rs:198-224) *)

\* (self.height / self.cell_height) as usize
SizeLines(size) == size.height \div size.cell_height

\* (self.width / self.cell_width) as usize
SizeCols(size) == size.width \div size.cell_width

---------------------------------------------------------------------------
(* Term *)

Panic(t, msg) == [t EXCEPT !.aborted = msg]

OutOfBounds == "index out of bounds"
FellOff == "cursor fell off grid"

Running(t) == t.aborted = "no"

\* (Column(0)..grid.num_cols()).map(|i| i % TAB_SPACES == 0) (term.rs:259-261)
TAB_SPACES == 8

TabsList(cols) == [i \in 1 .. cols |-> (i - 1) % TAB_SPACES = 0]

\* tabs[0] = false (term.rs:263, 337)
TabsClearFirst(tabs) == [tabs EXCEPT ![1] = FALSE]

\* Term::new (term.rs:227-286); cols >= 1, or tabs[0] = false panics.
TermNew(width, height, cell_width, cell_height) ==
    LET size == [width |-> width, height |-> height,
                 cell_width |-> cell_width, cell_height |-> cell_height]
        template == [CellNew(" ") EXCEPT !.bg = ConfigBg, !.fg = ConfigFg]
        num_cols == SizeCols(size)
        num_lines == SizeLines(size)
        grid == GridNew(num_lines, num_cols, CellNew(" "))
    IN  [dirty |-> TRUE,
         grid |-> grid,
         alt_grid |-> grid,
         alt |-> FALSE,
         cursor |-> [line |-> 0, col |-> 0],
         alt_cursor |-> [line |-> 0, col |-> 0],
         fg |-> ConfigFg,
         bg |-> ConfigBg,
         tty |-> [lines |-> num_lines, cols |-> num_cols,
                  width |-> size.width, height |-> size.height, resizes |-> 1],
         tabs |-> TabsClearFirst(TabsList(num_cols)),
         mode |-> {"SHOW_CURSOR"},
         scroll_region |-> [start |-> 0, end |-> num_lines],
         size_info |-> size,
         template_cell |-> template,
         empty_cell |-> template,
         aborted |-> "no"]


\* Scroll screen up (term.rs:410-429)
scroll_up_relative(t, origin, lines) ==
    LET template == t.empty_cell
        \* Clear `lines` lines starting from origin to origin + lines
        cstart == origin
        cend == origin + lines
        cleared == GridClearRegion(t.grid, cstart, cend, template)
        \* Scroll from origin to bottom less number of lines
        start == origin
        end == Sub(t.scroll_region.end, lines)
    IN  IF ~SliceOk(cstart, cend, t.grid.lines) THEN Panic(t, OutOfBounds)
        ELSE IF ~GridScrollUpOk(cleared, start, end, lines)
        THEN Panic(t, OutOfBounds)
        ELSE [t EXCEPT !.grid = GridScrollUp(cleared, start, end, lines)]

\* Scroll screen down (term.rs:385-404)
scroll_down_relative(t, origin, lines) ==
    LET template == t.empty_cell
        \* Clear `lines` lines at bottom of area
        cend == t.scroll_region.end
        cstart == Sub(cend, lines)
        cleared == GridClearRegion(t.grid, cstart, cend, template)
        \* Scroll between origin and bottom
        end == t.scroll_region.end
        start == origin + lines
    IN  IF ~SliceOk(cstart, cend, t.grid.lines) THEN Panic(t, OutOfBounds)
        ELSE IF ~GridScrollDownOk(cleared, start, end, lines)
        THEN Panic(t, OutOfBounds)
        ELSE [t EXCEPT !.grid = GridScrollDown(cleared, start, end, lines)]

\* term.rs:620-623
scroll_up(t, lines) == scroll_up_relative(t, t.scroll_region.start, lines)

\* term.rs:626-629
scroll_down(t, lines) == scroll_down_relative(t, t.scroll_region.start, lines)

\* A clear of the newly active grid on every swap, also on the way back.
SwapAltClearAlways(t) == [t EXCEPT !.grid = GridClear(t.grid, t.empty_cell)]

\* A swap that leaves the cursors where they are.
swap_alt_grids_only(t) ==
    [t EXCEPT !.alt = ~t.alt, !.grid = t.alt_grid, !.alt_grid = t.grid]

\* A clear with the test of the alt flag inverted: on exit instead of on
\* entry.
SwapAltClearOnExit(t) ==
    IF ~t.alt THEN [t EXCEPT !.grid = GridClear(t.grid, t.empty_cell)] ELSE t

\* The empty-cell clear of the newly active grid (term.rs:375-378)
SwapAltClear(t) ==
    IF t.alt THEN [t EXCEPT !.grid = GridClear(t.grid, t.empty_cell)] ELSE t

\* term.rs:370-379
swap_alt(t) ==
    SwapAltClear([t EXCEPT !.alt = ~t.alt,
                           !.grid = t.alt_grid, !.alt_grid = t.grid,
                           !.cursor = t.alt_cursor, !.alt_cursor = t.cursor])

\* A resize that forgets the alternate grid.
ResizeGridsActiveOnly(t, num_lines, num_cols) ==
    [t EXCEPT !.grid = GridResize(t.grid, num_lines, num_cols, CellNew(" "))]

\* Resize grids to new size (term.rs:325-327)
ResizeGrids(t, num_lines, num_cols) ==
    [t EXCEPT !.grid = GridResize(t.grid, num_lines, num_cols, CellNew(" ")),
              !.alt_grid = GridResize(t.alt_grid, num_lines, num_cols,
                                      CellNew(" "))]

\* Scroll up to keep cursor in terminal (term.rs:316-321)
ResizeScroll(t, num_lines) ==
    IF t.cursor.line >= num_lines
    THEN LET lines == Sub(t.cursor.line, num_lines) + 1
             s == scroll_up(t, lines)
         IN  IF Running(s)
             THEN [s EXCEPT !.cursor.line = Sub(s.cursor.line, lines)]
             ELSE s
    ELSE t

\* Ensure cursor is in-bounds (term.rs:329-331)
ResizeLimitCursor(t, num_lines, num_cols) ==
    [t EXCEPT !.cursor.line = limit(t.cursor.line, 0, num_lines),
              !.cursor.col = limit(t.cursor.col, 0, num_cols)]

\* A resize that keeps the old tabs list.
ResizeTabsStale(t) == t

\* Recreate tabs list (term.rs:333-337); tabs[0] = false panics on an
\* empty list.
ResizeTabs(t) ==
    IF t.grid.cols = 0 THEN Panic(t, OutOfBounds)
    ELSE [t EXCEPT !.tabs = TabsClearFirst(TabsList(t.grid.cols))]

\* A clear that starts below the cursor's row.
ResizeClearBelowCursor(t) ==
    IF ~SliceOk(t.cursor.line + 1, t.grid.lines, t.grid.lines)
    THEN Panic(t, OutOfBounds)
    ELSE [t EXCEPT
            !.grid = GridClearRegion(t.grid, t.cursor.line + 1, t.grid.lines,
                                     t.empty_cell),
            !.alt_grid = GridClearRegion(t.alt_grid, t.cursor.line + 1,
                                         t.alt_grid.lines, t.empty_cell)]

\* Make sure bottom of terminal is clear (term.rs:339-342)
ResizeClear(t) ==
    IF ~SliceOk(t.cursor.line, t.grid.lines, t.grid.lines)
    THEN Panic(t, OutOfBounds)
    ELSE [t EXCEPT
            !.grid = GridClearRegion(t.grid, t.cursor.line, t.grid.lines,
                                     t.empty_cell),
            !.alt_grid = GridClearRegion(t.alt_grid, t.cursor.line,
                                         t.alt_grid.lines, t.empty_cell)]

\* Inform tty of new dimensions (term.rs:347-351)
ResizeTty(t, num_lines, num_cols) ==
    [t EXCEPT !.tty = [lines |-> num_lines, cols |-> num_cols,
                       width |-> t.size_info.width,
                       height |-> t.size_info.height,
                       resizes |-> t.tty.resizes + 1]]

\* The body of resize once the dimensions are known to differ
\* (term.rs:312-351)
ResizeChanged(t0, num_lines, num_cols) ==
    LET t1 == [t0 EXCEPT !.scroll_region = [start |-> 0, end |-> t0.grid.lines]]
        t2 == ResizeScroll(t1, num_lines)
        t3 == ResizeGrids(t2, num_lines, num_cols)
        t4 == ResizeLimitCursor(t3, num_lines, num_cols)
        t5 == ResizeTabs(t4)
        t6 == ResizeClear(t5)
        t7 == [t6 EXCEPT !.scroll_region = [start |-> 0, end |-> t6.grid.lines]]
    IN  IF ~Running(t2) THEN t2
        ELSE IF ~Running(t5) THEN t5
        ELSE IF ~Running(t6) THEN t6
        ELSE ResizeTty(t7, num_lines, num_cols)

\* A resize without the early return for unchanged dimensions.
resize_always(t, width, height) ==
    LET size == [width |-> width, height |-> height,
                 cell_width |-> t.size_info.cell_width,
                 cell_height |-> t.size_info.cell_height]
    IN  ResizeChanged([t EXCEPT !.size_info = size],
                      SizeLines(size), SizeCols(size))

\* Resize terminal to new dimensions (term.rs:293-353)
resize(t, width, height) ==
    LET size == [width |-> width, height |-> height,
                 cell_width |-> t.size_info.cell_width,
                 cell_height |-> t.size_info.cell_height]
        old_cols == SizeCols(t.size_info)
        old_lines == SizeLines(t.size_info)
        num_cols == SizeCols(size)
        num_lines == SizeLines(size)
        t0 == [t EXCEPT !.size_info = size]
    IN  IF old_cols = num_cols /\ old_lines = num_lines THEN t0
        ELSE ResizeChanged(t0, num_lines, num_cols)

---------------------------------------------------------------------------
(* impl ansi::Handler for Term (term.rs:444-863) *)

\* term.rs:589-596
linefeed(t) ==
    IF t.cursor.line + 1 = t.scroll_region.end
    THEN scroll_up(t, 1)
    ELSE [t EXCEPT !.cursor.line = t.cursor.line + 1]

\* The wrap of a pending-wrap cursor (term.rs:448-456)
InputWrap(t) ==
    IF t.cursor.col = t.grid.cols
    THEN LET w == IF t.cursor.line + 1 >= t.scroll_region.end
                  THEN linefeed(t)
                  ELSE [t EXCEPT !.cursor.line = t.cursor.line + 1]
         IN  IF Running(w) THEN [w EXCEPT !.cursor.col = 0] ELSE w
    ELSE t

\* The write of the character (term.rs:464-467)
InputWrite(t, c) ==
    IF ~GridContains(t.grid, t.cursor) THEN Panic(t, OutOfBounds)
    ELSE [t EXCEPT
            !.grid = GridSetCell(t.grid, t.cursor,
                                 [t.template_cell EXCEPT !.c = c]),
            !.cursor.col = t.cursor.col + 1]

\* A character to be displayed (term.rs:447-468)
input(t, c) ==
    LET w == InputWrap(t)
    IN  IF ~Running(w) THEN w
        ELSE IF w.cursor.line = w.grid.lines THEN Panic(w, FellOff)
        ELSE InputWrite(w, c)

\* term.rs:471-475
goto(t, line, col) == [t EXCEPT !.cursor = [line |-> line, col |-> col]]

\* term.rs:478-481
goto_line(t, line) == [t EXCEPT !.cursor.line = line]

\* term.rs:484-487
goto_col(t, col) == [t EXCEPT !.cursor.col = col]

\* ptr::copy(src, dst, n) inside one row: cells [dst, dst + n) take the old
\* cells [src, src + n) (columns counted from 0).
RowCopy(row, src, dst, n) ==
    [c \in 1 .. Len(row) |->
        IF dst < c /\ c <= dst + n THEN row[c - dst + src] ELSE row[c]]

\* insert_blank without the clamp of count to cols - cursor.col
insert_blank_unclamped(t, count0) ==
    LET cols == SizeCols(t.size_info)
        count == count0
        source == t.cursor.col
        destination == t.cursor.col + count
        num_cells == Sub(cols, destination)
        line == t.grid.raw[t.cursor.line + 1]
        moved == RowCopy(line, source, destination, num_cells)
    IN  IF t.cursor.line >= t.grid.lines THEN Panic(t, OutOfBounds)
        ELSE IF source > Len(line) \/ destination > Len(line)
        THEN Panic(t, OutOfBounds)
        ELSE IF destination + num_cells > Len(line)
        THEN Panic(t, "copy past the end of the row")
        ELSE [t EXCEPT !.grid.raw[t.cursor.line + 1] =
                    RowReset(moved, source, destination, t.empty_cell)]

\* term.rs:490-514
insert_blank(t, count0) ==
    LET cols == SizeCols(t.size_info)
        count == Min(count0, Sub(cols, t.cursor.col))
        source == t.cursor.col
        destination == t.cursor.col + count
        num_cells == Sub(cols, destination)
        line == t.grid.raw[t.cursor.line + 1]
        moved == RowCopy(line, source, destination, num_cells)
    IN  IF t.cursor.line >= t.grid.lines THEN Panic(t, OutOfBounds)
        ELSE IF source > Len(line) \/ destination > Len(line)
        THEN Panic(t, OutOfBounds)
        ELSE IF destination + num_cells > Len(line)
        THEN Panic(t, "copy past the end of the row")
        ELSE [t EXCEPT !.grid.raw[t.cursor.line + 1] =
                    RowReset(moved, source, destination, t.empty_cell)]

\* term.rs:517-520
move_up(t, lines) == [t EXCEPT !.cursor.line = Sub(t.cursor.line, lines)]

\* term.rs:523-526
move_down(t, lines) == [t EXCEPT !.cursor.line = t.cursor.line + lines]

\* term.rs:529-532
move_forward(t, cols) == [t EXCEPT !.cursor.col = t.cursor.col + cols]

\* term.rs:535-538
move_backward(t, cols) == [t EXCEPT !.cursor.col = Sub(t.cursor.col, cols)]

\* The inner loop of put_tab (term.rs:562-567): advance to a tab stop or to
\* num_cols.
RECURSIVE PutTabAdvance(_, _)
PutTabAdvance(t, col) ==
    IF col = t.grid.cols \/ t.tabs[col + 1] THEN col
    ELSE PutTabAdvance(t, col + 1)

\* The outer loop of put_tab (term.rs:560-568).  On a tab stop the inner
\* loop does not move; with a negative count the loop then runs until the
\* i64 count wraps, which is modelled as not returning.
RECURSIVE PutTabLoop(_, _, _)
PutTabLoop(t, col, count) ==
    IF col < t.grid.cols /\ count # 0
    THEN LET next == PutTabAdvance(t, col)
         IN  IF next = col /\ count < 0 THEN Panic(t, "put_tab does not return")
             ELSE PutTabLoop(t, next, count - 1)
    ELSE [t EXCEPT !.cursor.col = col]

\* The number of iterations of the outer loop of put_tab (term.rs:560-568),
\* -1 when the loop does not return.
RECURSIVE PutTabIterations(_, _, _)
PutTabIterations(t, col, count) ==
    IF col < t.grid.cols /\ count # 0
    THEN LET next == PutTabAdvance(t, col)
             rest == PutTabIterations(t, next, count - 1)
         IN  IF next = col /\ count < 0 THEN -1
             ELSE IF rest < 0 THEN -1
             ELSE 1 + rest
    ELSE 0

\* term.rs:556-571
put_tab(t, count) == PutTabLoop(t, t.cursor.col, count)

\* term.rs:575-578
backspace(t) == [t EXCEPT !.cursor.col = Sub(t.cursor.col, 1)]

\* term.rs:582-585
carriage_return(t) == [t EXCEPT !.cursor.col = 0]

\* identify_terminal, move_down_and_cr, move_up_and_cr, bell, substitute,
\* newline, set_horizontal_tabstop, move_backward_tabs, move_forward_tabs,
\* save_cursor_position, restore_cursor_position, clear_tabs, reset_state:
\* logged, nothing done (term.rs:541-553, 600-617, 690-707, 757-764)
unimplemented(t) == t

\* term.rs:632-638
insert_blank_lines(t, lines) ==
    IF t.scroll_region.start <= t.cursor.line
       /\ t.cursor.line < t.scroll_region.end
    THEN scroll_down_relative(t, t.cursor.line, lines)
    ELSE t

\* term.rs:641-647
delete_lines(t, lines) ==
    IF t.scroll_region.start <= t.cursor.line
       /\ t.cursor.line < t.scroll_region.end
    THEN scroll_up_relative(t, t.cursor.line, lines)
    ELSE t

\* term.rs:650-660
erase_chars(t, count) ==
    LET start == t.cursor.col
        end == start + count
        row == t.grid.raw[t.cursor.line + 1]
    IN  IF t.cursor.line >= t.grid.lines THEN Panic(t, OutOfBounds)
        ELSE IF ~SliceOk(start, end, Len(row)) THEN Panic(t, OutOfBounds)
        ELSE [t EXCEPT !.grid.raw[t.cursor.line + 1] =
                    RowReset(row, start, end, t.empty_cell)]

\* term.rs:663-687
delete_chars(t, count0) ==
    LET cols == SizeCols(t.size_info)
        count == Min(count0, cols)
        start == t.cursor.col
        end == t.cursor.col + count
        n == Sub(cols, end)
        line == t.grid.raw[t.cursor.line + 1]
        moved == RowCopy(line, end, start, n)
        tail == Sub(cols, count)
    IN  IF t.cursor.line >= t.grid.lines THEN Panic(t, OutOfBounds)
        ELSE IF end > Len(line) \/ start > Len(line)
        THEN Panic(t, OutOfBounds)
        ELSE IF end + n > Len(line)
        THEN Panic(t, "copy past the end of the row")
        ELSE IF tail > Len(line) THEN Panic(t, OutOfBounds)
        ELSE [t EXCEPT !.grid.raw[t.cursor.line + 1] =
                    RowReset(moved, tail, Len(line), t.empty_cell)]

\* term.rs:710-733; mode is "Right", "Left" or "All"
clear_line(t, mode) ==
    LET row == t.grid.raw[t.cursor.line + 1]
        start == IF mode = "Right" THEN t.cursor.col ELSE 0
        end == IF mode = "Left" THEN t.cursor.col + 1 ELSE Len(row)
    IN  IF t.cursor.line >= t.grid.lines THEN Panic(t, OutOfBounds)
        ELSE IF ~SliceOk(start, end, Len(row)) THEN Panic(t, OutOfBounds)
        ELSE [t EXCEPT !.grid.raw[t.cursor.line + 1] =
                    RowReset(row, start, end, t.empty_cell)]

\* term.rs:736-754; mode is "Below", "All" or "Above"
clear_screen(t, mode) ==
    CASE mode = "Below" ->
            IF ~SliceOk(t.cursor.line, t.grid.lines, t.grid.lines)
            THEN Panic(t, OutOfBounds)
            ELSE [t EXCEPT !.grid = GridClearRegion(t.grid, t.cursor.line,
                                        t.grid.lines, t.empty_cell)]
      [] mode = "All" ->
            [t EXCEPT !.grid = GridClear(t.grid, t.empty_cell)]
      [] OTHER -> Panic(t, "ansi::ClearMode::Above not implemented")

\* term.rs:767-775
reverse_index(t) ==
    IF t.cursor.line = t.scroll_region.start
    THEN scroll_down(t, 1)
    ELSE [t EXCEPT !.cursor.line = Sub(t.cursor.line, 1)]

\* The attributes of ansi::Attr that Term handles (term.rs:782-812); every
\* other attribute is "Other".
Attrs ==
    {<<"DefaultForeground">>, <<"DefaultBackground">>, <<"Reset">>,
     <<"Reverse">>, <<"CancelReverse">>, <<"Bold">>, <<"CancelBoldDim">>,
     <<"Italic">>, <<"CancelItalic">>, <<"Underscore">>,
     <<"CancelUnderline">>, <<"ForegroundSpec", SpecRgb>>,
     <<"BackgroundSpec", SpecRgb>>, <<"Other">>}
    \cup {<<"Foreground", n>> : n \in NamedColors}
    \cup {<<"Background", n>> : n \in NamedColors}

\* terminal_attribute with the background colour also taken over by the
\* empty cell.
terminal_attribute_bce(t, attr) ==
    LET tc == t.template_cell
        kind == attr[1]
    IN  CASE kind = "DefaultForeground" -> [t EXCEPT !.template_cell.fg = t.fg]
          [] kind = "DefaultBackground" ->
                [t EXCEPT !.template_cell.bg = t.bg, !.empty_cell.bg = t.bg]
          [] kind = "Foreground" ->
                [t EXCEPT !.template_cell.fg = colors(attr[2])]
          [] kind = "Background" ->
                [t EXCEPT !.template_cell.bg = colors(attr[2]),
                          !.empty_cell.bg = colors(attr[2])]
          [] kind = "ForegroundSpec" -> [t EXCEPT !.template_cell.fg = attr[2]]
          [] kind = "BackgroundSpec" ->
                [t EXCEPT !.template_cell.bg = attr[2],
                          !.empty_cell.bg = attr[2]]
          [] kind = "Reset" ->
                [t EXCEPT !.template_cell.fg = t.fg,
                          !.template_cell.bg = t.bg,
                          !.template_cell.flags = {}]
          [] kind = "Reverse" ->
                [t EXCEPT !.template_cell.flags = tc.flags \cup {"INVERSE"}]
          [] kind = "CancelReverse" ->
                [t EXCEPT !.template_cell.flags = tc.flags \ {"INVERSE"}]
          [] kind = "Bold" ->
                [t EXCEPT !.template_cell.flags = tc.flags \cup {"BOLD"}]
          [] kind = "CancelBoldDim" ->
                [t EXCEPT !.template_cell.flags = tc.flags \ {"BOLD"}]
          [] kind = "Italic" ->
                [t EXCEPT !.template_cell.flags = tc.flags \cup {"ITALIC"}]
          [] kind = "CancelItalic" ->
                [t EXCEPT !.template_cell.flags = tc.flags \ {"ITALIC"}]
          [] kind = "Underscore" ->
                [t EXCEPT !.template_cell.flags = tc.flags \cup {"UNDERLINE"}]
          [] kind = "CancelUnderline" ->
                [t EXCEPT !.template_cell.flags = tc.flags \ {"UNDERLINE"}]
          [] OTHER -> t

\* term.rs:779-817
terminal_attribute(t, attr) ==
    LET tc == t.template_cell
        kind == attr[1]
    IN  CASE kind = "DefaultForeground" -> [t EXCEPT !.template_cell.fg = t.fg]
          [] kind = "DefaultBackground" -> [t EXCEPT !.template_cell.bg = t.bg]
          [] kind = "Foreground" ->
                [t EXCEPT !.template_cell.fg = colors(attr[2])]
          [] kind = "Background" ->
                [t EXCEPT !.template_cell.bg = colors(attr[2])]
          [] kind = "ForegroundSpec" -> [t EXCEPT !.template_cell.fg = attr[2]]
          [] kind = "BackgroundSpec" -> [t EXCEPT !.template_cell.bg = attr[2]]
          [] kind = "Reset" ->
                [t EXCEPT !.template_cell.fg = t.fg,
                          !.template_cell.bg = t.bg,
                          !.template_cell.flags = {}]
          [] kind = "Reverse" ->
                [t EXCEPT !.template_cell.flags = tc.flags \cup {"INVERSE"}]
          [] kind = "CancelReverse" ->
                [t EXCEPT !.template_cell.flags = tc.flags \ {"INVERSE"}]
          [] kind = "Bold" ->
                [t EXCEPT !.template_cell.flags = tc.flags \cup {"BOLD"}]
          [] kind = "CancelBoldDim" ->
                [t EXCEPT !.template_cell.flags = tc.flags \ {"BOLD"}]
          [] kind = "Italic" ->
                [t EXCEPT !.template_cell.flags = tc.flags \cup {"ITALIC"}]
          [] kind = "CancelItalic" ->
                [t EXCEPT !.template_cell.flags = tc.flags \ {"ITALIC"}]
          [] kind = "Underscore" ->
                [t EXCEPT !.template_cell.flags = tc.flags \cup {"UNDERLINE"}]
          [] kind = "CancelUnderline" ->
                [t EXCEPT !.template_cell.flags = tc.flags \ {"UNDERLINE"}]
          [] OTHER -> t

\* The modes of ansi::Mode that Term handles (term.rs:823-825); every other
\* mode is "Other".
Modes == {"SwapScreenAndSetRestoreCursor", "ShowCursor", "CursorKeys", "Other"}

\* term.rs:820-830
set_mode(t, mode) ==
    CASE mode = "SwapScreenAndSetRestoreCursor" -> swap_alt(t)
      [] mode = "ShowCursor" -> [t EXCEPT !.mode = t.mode \cup {"SHOW_CURSOR"}]
      [] mode = "CursorKeys" -> [t EXCEPT !.mode = t.mode \cup {"APP_CURSOR"}]
      [] OTHER -> t

\* term.rs:833-843
unset_mode(t, mode) ==
    CASE mode = "SwapScreenAndSetRestoreCursor" -> swap_alt(t)
      [] mode = "ShowCursor" -> [t EXCEPT !.mode = t.mode \ {"SHOW_CURSOR"}]
      [] mode = "CursorKeys" -> [t EXCEPT !.mode = t.mode \ {"APP_CURSOR"}]
      [] OTHER -> t

\* term.rs:846-850
set_scrolling_region(t, start, end) ==
    goto([t EXCEPT !.scroll_region = [start |-> start, end |-> end]], 0, 0)

\* term.rs:853-856
set_keypad_application_mode(t) ==
    [t EXCEPT !.mode = t.mode \cup {"APP_KEYPAD"}]

\* term.rs:859-862
unset_keypad_application_mode(t) ==
    [t EXCEPT !.mode = t.mode \ {"APP_KEYPAD"}]

---------------------------------------------------------------------------
(* RenderGrid (term.rs:28-68) *)

\* The cursor cell is inverted for the frame (term.rs:40, 55).
RenderInverts(grid, cursor, mode) ==
    "SHOW_CURSOR" \in mode /\ GridContains(grid, cursor)

\* The grid with the cursor cell's fg and bg exchanged when it is to be shown
\* (term.rs:40-43, 55-58)
RenderSwap(grid, cursor, mode) ==
    IF RenderInverts(grid, cursor, mode)
    THEN GridSetCell(grid, cursor, SwapFgBg(GridCell(grid, cursor)))
    ELSE grid

\* A RenderGrid that shows the grid as it is, cursor cell not inverted.
RenderGridPlain(t) == t

\* RenderGrid::new (term.rs:39-50)
RenderGridNew(t) == [t EXCEPT !.grid = RenderSwap(t.grid, t.cursor, t.mode)]

\* A drop that leaves the cursor cell as the frame showed it.
RenderGridDropKeep(t, r) == t

\* impl Drop for RenderGrid (term.rs:53-60); r.mode is the mode copied at
\* construction, the cursor is the borrowed term.cursor.
RenderGridDrop(t, r) == [t EXCEPT !.grid = RenderSwap(t.grid, t.cursor, r.mode)]

---------------------------------------------------------------------------
(* FontKey (font/src/lib.rs:73-90) *)

\* Number of threads that ask for font keys.
NumThreads == 3

\* Number of FontKey::next calls of a run.
MaxFontCalls == 5

Threads == 1 .. NumThreads

\* static TOKEN: AtomicU32 = ATOMIC_U32_INIT, and no key handed out yet;
\* keys[th] lists the tokens thread th was given, in the order of its calls.
FontInit == [TOKEN |-> 0, keys |-> [th \in Threads |-> <<>>]]

\* A next that reads TOKEN and leaves it as it is.
FontKeyNextNoAdd(f, th) == [f EXCEPT !.keys[th] = Append(@, f.TOKEN)]

\* FontKey::next on thread th: TOKEN.fetch_add(1, Ordering::SeqCst) returns
\* the old value and stores the sum in one atomic step.  The u32 sum wraps
\* at 2^32 calls, which no run of MaxFontCalls calls reaches.
FontKeyNext(f, th) ==
    [f EXCEPT !.TOKEN = f.TOKEN + 1,
              !.keys[th] = Append(@, f.TOKEN)]

\* impl ansi::TermInfo for Term (term.rs:432-442)
num_lines(t) == t.grid.lines

num_cols(t) == t.grid.cols

---------------------------------------------------------------------------
(* Actions *)

\* An operation on the Term is made by the thread that holds it for
\* mutation; `&mut self` excludes a live RenderGrid (term.rs:288).
Mutable ==
    /\ lock = "parser"
    /\ render = {}
    /\ Running(term)
    /\ budget > 0

Counted == budget' = budget - 1 /\ UNCHANGED <<lock, render, font>>

\* The attributes the runs set.
AttrArgs ==
    {<<"Reverse">>, <<"Reset">>, <<"Foreground", "Red">>,
     <<"BackgroundSpec", SpecRgb>>}

ClearLineModes == {"Right", "Left", "All"}

ClearModes == {"Below", "All", "Above"}

\* put_tab takes an i64.
TabCounts == -1 .. MaxArg

Input ==
    \E c \in Chars :
        /\ Mutable
        /\ term' = input(term, c)
        /\ Counted

Goto ==
    \E l \in Args, c \in Args :
        /\ Mutable
        /\ term' = goto(term, l, c)
        /\ Counted

GotoLine ==
    \E l \in Args :
        /\ Mutable
        /\ term' = goto_line(term, l)
        /\ Counted

GotoCol ==
    \E c \in Args :
        /\ Mutable
        /\ term' = goto_col(term, c)
        /\ Counted

InsertBlank ==
    \E n \in Args :
        /\ Mutable
        /\ term' = insert_blank(term, n)
        /\ Counted

MoveUp ==
    \E n \in Args :
        /\ Mutable
        /\ term' = move_up(term, n)
        /\ Counted

MoveDown ==
    \E n \in Args :
        /\ Mutable
        /\ term' = move_down(term, n)
        /\ Counted

MoveForward ==
    \E n \in Args :
        /\ Mutable
        /\ term' = move_forward(term, n)
        /\ Counted

MoveBackward ==
    \E n \in Args :
        /\ Mutable
        /\ term' = move_backward(term, n)
        /\ Counted

PutTab ==
    \E n \in TabCounts :
        /\ Mutable
        /\ term' = put_tab(term, n)
        /\ Counted

Backspace ==
    /\ Mutable
    /\ term' = backspace(term)
    /\ Counted

CarriageReturn ==
    /\ Mutable
    /\ term' = carriage_return(term)
    /\ Counted

Linefeed ==
    /\ Mutable
    /\ term' = linefeed(term)
    /\ Counted

Unimplemented ==
    /\ Mutable
    /\ term' = unimplemented(term)
    /\ Counted

ScrollUp ==
    \E n \in Args :
        /\ Mutable
        /\ term' = scroll_up(term, n)
        /\ Counted

ScrollDown ==
    \E n \in Args :
        /\ Mutable
        /\ term' = scroll_down(term, n)
        /\ Counted

InsertBlankLines ==
    \E n \in Args :
        /\ Mutable
        /\ term' = insert_blank_lines(term, n)
        /\ Counted

DeleteLines ==
    \E n \in Args :
        /\ Mutable
        /\ term' = delete_lines(term, n)
        /\ Counted

EraseChars ==
    \E n \in Args :
        /\ Mutable
        /\ term' = erase_chars(term, n)
        /\ Counted

DeleteChars ==
    \E n \in Args :
        /\ Mutable
        /\ term' = delete_chars(term, n)
        /\ Counted

ClearLine ==
    \E m \in ClearLineModes :
        /\ Mutable
        /\ term' = clear_line(term, m)
        /\ Counted

ClearScreen ==
    \E m \in ClearModes :
        /\ Mutable
        /\ term' = clear_screen(term, m)
        /\ Counted

ReverseIndex ==
    /\ Mutable
    /\ term' = reverse_index(term)
    /\ Counted

TerminalAttribute ==
    \E a \in AttrArgs :
        /\ Mutable
        /\ term' = terminal_attribute(term, a)
        /\ Counted

SetMode ==
    \E m \in Modes :
        /\ Mutable
        /\ term' = set_mode(term, m)
        /\ Counted

UnsetMode ==
    \E m \in Modes :
        /\ Mutable
        /\ term' = unset_mode(term, m)
        /\ Counted

SetScrollingRegion ==
    \E s \in Args, e \in Args :
        /\ Mutable
        /\ term' = set_scrolling_region(term, s, e)
        /\ Counted

SetKeypadApplicationMode ==
    /\ Mutable
    /\ term' = set_keypad_application_mode(term)
    /\ Counted

UnsetKeypadApplicationMode ==
    /\ Mutable
    /\ term' = unset_keypad_application_mode(term)
    /\ Counted

Resize ==
    \E w \in Pixels, h \in Pixels :
        /\ Mutable
        /\ term' = resize(term, w, h)
        /\ Counted

Handler ==
    \/ Input
    \/ Goto
    \/ GotoLine
    \/ GotoCol
    \/ InsertBlank
    \/ MoveUp
    \/ MoveDown
    \/ MoveForward
    \/ MoveBackward
    \/ PutTab
    \/ Backspace
    \/ CarriageReturn
    \/ Linefeed
    \/ Unimplemented
    \/ ScrollUp
    \/ ScrollDown
    \/ InsertBlankLines
    \/ DeleteLines
    \/ EraseChars
    \/ DeleteChars
    \/ ClearLine
    \/ ClearScreen
    \/ ReverseIndex
    \/ TerminalAttribute
    \/ SetMode
    \/ UnsetMode
    \/ SetScrollingRegion
    \/ SetKeypadApplicationMode
    \/ UnsetKeypadApplicationMode

---------------------------------------------------------------------------
(* The sequential specification: one thread holds the Term and applies     *)
(* handler calls and resizes to it.                                        *)

\* The Term after Term::new, for every initial pixel size that shows at
\* least one cell (the empty sizes come with resize).
InitTerm ==
    /\ \E w \in Pixels, h \in Pixels :
        /\ w \div CellSize >= 1
        /\ h \div CellSize >= 1
        /\ term = TermNew(w, h, CellSize, CellSize)
    /\ render = {}
    /\ font = FontInit

Init == InitTerm /\ lock = "parser" /\ budget = MaxCalls

Next == Handler \/ Resize

Spec == Init /\ [][Next]_vars

\* Handler calls alone, no resize.
SpecHandlers == Init /\ [][Handler]_vars

---------------------------------------------------------------------------
(* The wide specification: one line of up to MaxWidePx pixels, so that tab *)
(* stops exist.                                                            *)

\* Largest pixel width of the wide terminal.
MaxWidePx == 35

\* The widths around the tab stops.
WideWidths ==
    {w \in 0 .. MaxWidePx :
        w % CellSize = 0 /\ (w \div CellSize) % TAB_SPACES <= 1}

InitWide ==
    /\ \E w \in WideWidths :
        /\ w \div CellSize >= 1
        /\ term = TermNew(w, CellSize, CellSize, CellSize)
    /\ render = {}
    /\ font = FontInit
    /\ lock = "parser"
    /\ budget = MaxCalls

ResizeWide ==
    \E w \in WideWidths :
        /\ Mutable
        /\ term' = resize(term, w, CellSize)
        /\ Counted

NextWide == Handler \/ ResizeWide

SpecTabs == InitWide /\ [][NextWide]_vars

---------------------------------------------------------------------------
(* Handler calls whose arguments are in bounds: goto targets inside the    *)
(* grid, scroll regions with start < end <= num_lines.                     *)

\* Number of handler calls of a run of in-bounds calls.
MaxLongCalls == 4

InitInBounds == InitTerm /\ lock = "parser" /\ budget = MaxLongCalls

GotoInBounds ==
    \E line \in Args, col \in Args :
        /\ Mutable
        /\ line < num_lines(term)
        /\ col < num_cols(term)
        /\ term' = goto(term, line, col)
        /\ Counted

SetScrollingRegionInBounds ==
    \E start \in Args, end \in Args :
        /\ Mutable
        /\ start < end
        /\ end <= num_lines(term)
        /\ term' = set_scrolling_region(term, start, end)
        /\ Counted

NextInBounds ==
    \/ Input
    \/ Linefeed
    \/ CarriageReturn
    \/ Backspace
    \/ ReverseIndex
    \/ GotoInBounds
    \/ SetScrollingRegionInBounds

SpecInBounds == InitInBounds /\ [][NextInBounds]_vars

---------------------------------------------------------------------------
(* The two threads (section 5 of the specification): the PTY reader makes  *)
(* the handler calls, the renderer takes a RenderGrid and clears dirty;    *)
(* each holds the one lock around the Term while it does so.               *)

InitThreads == InitTerm /\ lock = "free" /\ budget = MaxCalls

\* The PTY reader takes the lock for a batch of handler calls.
ParserLock ==
    /\ lock = "free"
    /\ lock' = "parser"
    /\ UNCHANGED <<term, budget, render, font>>

ParserUnlock ==
    /\ lock = "parser"
    /\ lock' = "free"
    /\ UNCHANGED <<term, budget, render, font>>

\* The renderer takes the lock for one RenderGrid scope.
RendererLock ==
    /\ lock = "free"
    /\ lock' = "renderer"
    /\ UNCHANGED <<term, budget, render, font>>

\* term.render_grid() (term.rs:288-290): the RenderGrid keeps a copy of the
\* mode; `before` records the grid the renderer was given.
RenderGridAcquire ==
    /\ lock = "renderer"
    /\ render = {}
    /\ Running(term)
    /\ term' = RenderGridNew(term)
    /\ render' = {[mode |-> term.mode, before |-> term.grid]}
    /\ UNCHANGED <<lock, budget, font>>

\* The RenderGrid goes out of scope (term.rs:53-60).
RenderGridRelease ==
    \E r \in render :
        /\ term' = RenderGridDrop(term, r)
        /\ render' = {}
        /\ UNCHANGED <<lock, budget, font>>

\* The renderer clears dirty once the frame is drawn.
RendererClearDirty ==
    /\ lock = "renderer"
    /\ render = {}
    /\ term.dirty
    /\ term' = [term EXCEPT !.dirty = FALSE]
    /\ UNCHANGED <<lock, budget, render, font>>

RendererUnlock ==
    /\ lock = "renderer"
    /\ render = {}
    /\ lock' = "free"
    /\ UNCHANGED <<term, budget, render, font>>

NextThreads ==
    \/ Handler
    \/ ParserLock
    \/ ParserUnlock
    \/ RendererLock
    \/ RenderGridAcquire
    \/ RenderGridRelease
    \/ RendererClearDirty
    \/ RendererUnlock

SpecThreads == InitThreads /\ [][NextThreads]_vars

---------------------------------------------------------------------------
(* Threads asking for font keys *)

InitFonts ==
    /\ term = TermNew(CellSize, CellSize, CellSize, CellSize)
    /\ render = {}
    /\ font = FontInit
    /\ lock = "free"
    /\ budget = MaxFontCalls

\* One thread calls FontKey::next.
NextKey ==
    \E th \in Threads :
        /\ budget > 0
        /\ font' = FontKeyNext(font, th)
        /\ budget' = budget - 1
        /\ UNCHANGED <<term, lock, render>>

SpecFonts == InitFonts /\ [][NextKey]_vars

---------------------------------------------------------------------------
(* The tall specification: one column of up to MaxTallPx pixels, so that   *)
(* several lines can scroll.                                               *)

\* Largest pixel height of the tall terminal.
MaxTallPx == 8

\* Number of operations of a run on the tall terminal.
MaxTallCalls == 3

TallHeights == {h \in 0 .. MaxTallPx : h % CellSize = 0}

InitTall ==
    /\ \E h \in TallHeights :
        /\ h \div CellSize >= 3
        /\ term = TermNew(CellSize, h, CellSize, CellSize)
    /\ render = {}
    /\ font = FontInit
    /\ lock = "parser"
    /\ budget = MaxTallCalls

ResizeTall ==
    \E h \in TallHeights :
        /\ Mutable
        /\ term' = resize(term, CellSize, h)
        /\ Counted

NextTall == Handler \/ ResizeTall

SpecTall == InitTall /\ [][NextTall]_vars

---------------------------------------------------------------------------
(* The two screens: in-bounds writes and cursor moves, swap_alt, and       *)
(* resizes to at least one cell each way.                                  *)

\* Number of calls of a run over the two screens.
MaxScreenCalls == 3

InitScreens == InitTerm /\ lock = "parser" /\ budget = MaxScreenCalls

SwapAlt ==
    /\ Mutable
    /\ term' = swap_alt(term)
    /\ Counted

ResizeInBounds ==
    \E w \in Pixels, h \in Pixels :
        /\ Mutable
        /\ w \div CellSize >= 1
        /\ h \div CellSize >= 1
        /\ term' = resize(term, w, h)
        /\ Counted

NextScreens == Input \/ GotoInBounds \/ SwapAlt \/ ResizeInBounds

SpecScreens == InitScreens /\ [][NextScreens]_vars

---------------------------------------------------------------------------
(* The results of the handler calls, for the laws stated over every call *)

\* Every handler call on t with the arguments the runs draw.
HandlerCalls(t) ==
    {input(t, c) : c \in Chars}
    \cup {goto(t, l, c) : l \in Args, c \in Args}
    \cup {goto_line(t, l) : l \in Args}
    \cup {goto_col(t, c) : c \in Args}
    \cup {insert_blank(t, n) : n \in Args}
    \cup {move_up(t, n) : n \in Args}
    \cup {move_down(t, n) : n \in Args}
    \cup {move_forward(t, n) : n \in Args}
    \cup {move_backward(t, n) : n \in Args}
    \cup {put_tab(t, n) : n \in TabCounts}
    \cup {backspace(t), carriage_return(t), linefeed(t), unimplemented(t),
          reverse_index(t), set_keypad_application_mode(t),
          unset_keypad_application_mode(t)}
    \cup {scroll_up(t, n) : n \in Args}
    \cup {scroll_down(t, n) : n \in Args}
    \cup {insert_blank_lines(t, n) : n \in Args}
    \cup {delete_lines(t, n) : n \in Args}
    \cup {erase_chars(t, n) : n \in Args}
    \cup {delete_chars(t, n) : n \in Args}
    \cup {clear_line(t, m) : m \in ClearLineModes}
    \cup {clear_screen(t, m) : m \in ClearModes}
    \cup {terminal_attribute(t, a) : a \in AttrArgs}
    \cup {set_mode(t, m) : m \in Modes}
    \cup {unset_mode(t, m) : m \in Modes}
    \cup {set_scrolling_region(t, s, e) : s \in Args, e \in Args}

\* The handler calls that do not swap the screens.
NoSwapCalls(t) == {t2 \in HandlerCalls(t) : t2.alt = t.alt}

---------------------------------------------------------------------------
(* The claims *)

\* C1: after every handler call the active cursor satisfies
\* 0 <= cursor.col <= num_cols and 0 <= cursor.line <= num_lines.
C1_CursorInBounds ==
    Running(term) =>
        /\ 0 <= term.cursor.col /\ term.cursor.col <= num_cols(term)
        /\ 0 <= term.cursor.line /\ term.cursor.line <= num_lines(term)

\* A grid has exactly `lines` rows of exactly `cols` cells each.
GridHasSize(g, lines, cols) ==
    /\ g.lines = lines
    /\ g.cols = cols
    /\ Len(g.raw) = lines
    /\ \A l \in 1 .. Len(g.raw) : Len(g.raw[l]) = cols

\* C2: in every reachable state the active grid and the alternate grid have
\* exactly size_info.lines() rows of exactly size_info.cols() cells, so the
\* column count insert_blank and delete_chars use is the grid's num_cols.
C2_GridsMatchSizeInfo ==
    Running(term) =>
        /\ GridHasSize(term.grid, SizeLines(term.size_info),
                       SizeCols(term.size_info))
        /\ GridHasSize(term.alt_grid, SizeLines(term.size_info),
                       SizeCols(term.size_info))

\* A resize that changed the dimensions has been followed by a swap to the
\* alternate screen.
C2_Witness ==
    /\ Running(term)
    /\ term.tty.resizes >= 2
    /\ term.alt
    /\ term.grid.lines >= 1
    /\ term.grid.cols >= 1

\* C3: after every handler call and every resize,
\* scroll_region.start < scroll_region.end <= num_lines.
C3_ScrollRegionValid ==
    Running(term) =>
        /\ term.scroll_region.start < term.scroll_region.end
        /\ term.scroll_region.end <= num_lines(term)

\* C4: tabs has length num_cols, tabs[0] is false, and for every i > 0,
\* tabs[i] is true exactly when i mod 8 = 0.
C4_TabsEveryEight ==
    Running(term) =>
        /\ Len(term.tabs) = num_cols(term)
        /\ num_cols(term) > 0
        /\ term.tabs[1] = FALSE
        /\ \A i \in 1 .. num_cols(term) - 1 : term.tabs[i + 1] = (i % 8 = 0)

\* After a resize that changed the dimensions the terminal is wide enough
\* for two tab stops, columns 8 and 16.
C4_Witness ==
    /\ Running(term)
    /\ term.tty.resizes >= 2
    /\ num_cols(term) > 16
    /\ term.tabs[9]
    /\ term.tabs[17]

\* The grid of the primary screen and the grid of the alternate screen.
PrimaryGrid(t) == IF t.alt THEN t.alt_grid ELSE t.grid

AlternateGrid(t) == IF t.alt THEN t.grid ELSE t.alt_grid

\* Every cell of the grid is the cell.
GridAll(g, cell) ==
    \A l \in 1 .. g.lines : \A c \in 1 .. g.cols : g.raw[l][c] = cell

\* C5 as claimed: swap_alt twice restores the active grid and cursor, the
\* inactive grid and cursor and the alt flag.
C5_SwapTwiceRestoresAll ==
    Running(term) =>
        LET t2 == swap_alt(swap_alt(term))
        IN  /\ t2.grid = term.grid
            /\ t2.cursor = term.cursor
            /\ t2.alt_grid = term.alt_grid
            /\ t2.alt_cursor = term.alt_cursor
            /\ t2.alt = term.alt

\* C5 as amended: swap_alt twice restores both cursors, the alt flag and the
\* grid of the primary screen; the grid of the alternate screen keeps its
\* size and every cell of it is the empty cell.
C5_SwapTwiceRestoresPrimary ==
    Running(term) =>
        LET t2 == swap_alt(swap_alt(term))
        IN  /\ t2.cursor = term.cursor
            /\ t2.alt_cursor = term.alt_cursor
            /\ t2.alt = term.alt
            /\ PrimaryGrid(t2) = PrimaryGrid(term)
            /\ AlternateGrid(t2).lines = AlternateGrid(term).lines
            /\ AlternateGrid(t2).cols = AlternateGrid(term).cols
            /\ GridAll(AlternateGrid(t2), term.empty_cell)

\* The alternate screen is active and holds a character, the two cursors
\* differ, and the two swaps lose the character.
C5_Witness ==
    /\ Running(term)
    /\ term.alt
    /\ \E l \in 1 .. term.grid.lines : \E c \in 1 .. term.grid.cols :
            term.grid.raw[l][c].c # " "
    /\ term.cursor # term.alt_cursor
    /\ swap_alt(swap_alt(term)).grid # term.grid

\* C6: with the primary screen active, swap_alt, then handler calls other
\* than a mode swap, then swap_alt leave every cell of the primary grid and
\* the primary cursor as they were: the swap in parks them as the inactive
\* pair unchanged, no handler call made on the alternate screen touches the
\* inactive pair, and the swap back makes the inactive pair the active one.
C6_PrimaryUntouched ==
    /\ (Running(term) /\ ~term.alt) =>
            LET t1 == swap_alt(term)
            IN  /\ t1.alt
                /\ t1.alt_grid = term.grid
                /\ t1.alt_cursor = term.cursor
    /\ (Running(term) /\ term.alt) =>
            /\ \A t2 \in NoSwapCalls(term) :
                    Running(t2) =>
                        /\ t2.alt_grid = term.alt_grid
                        /\ t2.alt_cursor = term.alt_cursor
            /\ LET t3 == swap_alt(term)
               IN  /\ ~t3.alt
                   /\ t3.grid = term.alt_grid
                   /\ t3.cursor = term.alt_cursor

\* On the alternate screen, with a character written on the primary grid
\* before the swap and the primary cursor past it, a character has been
\* written on the alternate grid.
C6_Witness ==
    /\ Running(term)
    /\ term.alt
    /\ term.alt_cursor.col > 0
    /\ \E l \in 1 .. term.alt_grid.lines : \E c \in 1 .. term.alt_grid.cols :
            term.alt_grid.raw[l][c].c # " "
    /\ \E t2 \in NoSwapCalls(term) : Running(t2) /\ t2.grid # term.grid

\* C7: the "cursor fell off grid" abort of input is not reached by handler
\* calls whose arguments are in bounds.
C7_NeverFellOffGrid == term.aborted # FellOff

\* The cursor is on a line of the grid and at a column of the row or just
\* past its end (pending wrap).
RowEditState(t) ==
    /\ Running(t)
    /\ t.cursor.line < num_lines(t)
    /\ t.cursor.col <= num_cols(t)

\* The row-editing calls on t for every count and every mode drawn.
RowEditCalls(t) ==
    {erase_chars(t, n) : n \in Args}
    \cup {delete_chars(t, n) : n \in Args}
    \cup {insert_blank(t, n) : n \in Args}
    \cup {clear_line(t, m) : m \in ClearLineModes}

\* C8: with cursor.line < num_lines and cursor.col <= num_cols, erase_chars,
\* delete_chars and insert_blank with any count >= 0 and clear_line with any
\* mode complete without an abort and leave every other row as it was.
C8_RowEditsTotal ==
    RowEditState(term) =>
        \A t2 \in RowEditCalls(term) :
            /\ Running(t2)
            /\ \A l \in 1 .. term.grid.lines :
                    l # term.cursor.line + 1 => t2.grid.raw[l] = term.grid.raw[l]

\* C9: a handler call that changes a cell of the grid leaves dirty true.
C9_MutationSetsDirty ==
    [][(budget' # budget /\ Running(term') /\ term'.grid # term.grid)
            => term'.dirty]_vars

\* While a RenderGrid exists the renderer holds the lock, and the cells read
\* through it are the grid the handler calls had produced when it was taken,
\* with only the shown cursor cell's fg and bg exchanged.
RenderGridView ==
    /\ Cardinality(render) <= 1
    /\ \A r \in render :
        /\ lock = "renderer"
        /\ term.grid = RenderSwap(r.before, term.cursor, r.mode)
        /\ \A l \in 1 .. term.grid.lines : \A c \in 1 .. term.grid.cols :
                term.grid.raw[l][c] # r.before.raw[l][c] =>
                    /\ term.cursor = [line |-> l - 1, col |-> c - 1]
                    /\ term.grid.raw[l][c] = SwapFgBg(r.before.raw[l][c])

\* No handler call is made while a RenderGrid exists, a RenderGrid is taken
\* only when none exists, and its release gives the handlers back the grid
\* it was taken from.
RenderGridStep ==
    /\ budget' # budget => render = {} /\ render' = {}
    /\ (render' # {} /\ render' # render) => render = {}
    /\ \A r \in render : render' = {} => term'.grid = r.before

\* C10: in every interleaving of the PTY reader and the renderer at most one
\* RenderGrid exists, no handler call is applied while it exists, the cells
\* read through it are the grid after the handler calls made so far with
\* only the cursor cell's fg and bg exchanged, and its release hands the
\* handlers the grid without the exchange.
C10_RenderGridExclusive == []RenderGridView /\ [][RenderGridStep]_vars

\* A RenderGrid exists after a handler call, and the cursor cell it shows
\* differs from the cell of the grid.
C10_Witness ==
    /\ budget < MaxCalls
    /\ \E r \in render : term.grid # r.before

\* The grid g2 is the grid g with the fg and bg of the cell at the cursor
\* exchanged and every other cell as it is in g.
OnlyCursorCellInverted(g2, g, cursor) ==
    /\ g2.lines = g.lines
    /\ g2.cols = g.cols
    /\ \A l \in 1 .. g.lines : \A c \in 1 .. g.cols :
            g2.raw[l][c] =
                IF l = cursor.line + 1 /\ c = cursor.col + 1
                THEN [c |-> g.raw[l][c].c, fg |-> g.raw[l][c].bg,
                      bg |-> g.raw[l][c].fg, flags |-> g.raw[l][c].flags]
                ELSE g.raw[l][c]

\* C11: taking a RenderGrid and releasing it leaves the grid cell for cell
\* as it was; while it is held the grid is the old grid with the cursor
\* cell's fg and bg exchanged when SHOW_CURSOR is set and the cursor is
\* inside the grid, and the old grid itself otherwise.
C11_RenderGridRoundTrip ==
    Running(term) =>
        LET held == RenderGridNew(term)
            released == RenderGridDrop(held, [mode |-> term.mode])
        IN  /\ released = term
            /\ IF  /\ "SHOW_CURSOR" \in term.mode
                   /\ term.cursor.line < num_lines(term)
                   /\ term.cursor.col < num_cols(term)
               THEN OnlyCursorCellInverted(held.grid, term.grid, term.cursor)
               ELSE held.grid = term.grid
            /\ [held EXCEPT !.grid = term.grid] = term

\* The cursor is shown and stands on a written cell whose fg and bg differ,
\* so the grid read through the RenderGrid is not the grid of the Term.
C11_Witness ==
    /\ Running(term)
    /\ "SHOW_CURSOR" \in term.mode
    /\ GridContains(term.grid, term.cursor)
    /\ GridCell(term.grid, term.cursor).c # " "
    /\ RenderGridNew(term).grid # term.grid

\* Every token handed out so far, with the thread and the position of the
\* call that got it.
KeysHandedOut ==
    {k \in Threads \X (1 .. MaxFontCalls) : k[2] <= Len(font.keys[k[1]])}

\* C12: no two calls of FontKey::next, on whatever threads, return the same
\* token; the tokens one thread gets by successive calls are strictly
\* increasing; the first call of the process gets 0 (the tokens handed out
\* are exactly 0 .. n-1 after n calls).
C12_FontKeysUnique ==
    /\ \A k1 \in KeysHandedOut, k2 \in KeysHandedOut :
            k1 # k2 => font.keys[k1[1]][k1[2]] # font.keys[k2[1]][k2[2]]
    /\ \A th \in Threads : \A i \in 1 .. Len(font.keys[th]) - 1 :
            font.keys[th][i] < font.keys[th][i + 1]
    /\ {font.keys[k[1]][k[2]] : k \in KeysHandedOut}
            = 0 .. Cardinality(KeysHandedOut) - 1

\* Two threads have called next in turns: one got tokens 0 and 2, another
\* got token 1 in between.
C12_Witness ==
    \E t1 \in Threads, t2 \in Threads :
        /\ t1 # t2
        /\ Len(font.keys[t1]) >= 2
        /\ font.keys[t1][1] = 0
        /\ font.keys[t1][2] = 2
        /\ Len(font.keys[t2]) >= 1
        /\ font.keys[t2][1] = 1

\* The pixel sizes that give zero lines or zero columns.
BelowOneCell(t, w, h) ==
    h < t.size_info.cell_height \/ w < t.size_info.cell_width

\* C13: a resize to a height below cell_height or a width below cell_width
\* completes without abort and leaves at least 1 line and 1 column.
C13_ResizeToZeroClamps ==
    Running(term) =>
        \A w \in Pixels, h \in Pixels :
            BelowOneCell(term, w, h) =>
                LET t2 == resize(term, w, h)
                IN  /\ Running(t2)
                    /\ num_lines(t2) >= 1
                    /\ num_cols(t2) >= 1

\* C14: resize(w, h) called twice in succession changes nothing the second
\* time: no cell of either grid, neither cursor, tabs, scroll_region, mode or
\* template, and no resize goes to the PTY.  Any resize whose derived lines
\* and columns equal the current ones changes nothing but the stored pixel
\* size.
C14_ResizeTwiceIsNoOp ==
    Running(term) =>
        \A w \in Pixels, h \in Pixels :
            LET t1 == resize(term, w, h)
                t2 == resize(t1, w, h)
                size == [term.size_info EXCEPT !.width = w, !.height = h]
            IN  /\ Running(t1) => t2 = t1
                /\ (/\ SizeLines(size) = SizeLines(term.size_info)
                    /\ SizeCols(size) = SizeCols(term.size_info))
                        => t1 = [term EXCEPT !.size_info = size]

\* A resize has changed the dimensions, a character has been written since
\* and the cursor is on a line of the grid: a resize that ran again in full
\* would wipe the character.
C14_Witness ==
    /\ Running(term)
    /\ term.tty.resizes >= 2
    /\ term.cursor.line < num_lines(term)
    /\ \E l \in 1 .. term.grid.lines : \E c \in 1 .. term.grid.cols :
            term.grid.raw[l][c].c # " "
    /\ \E w \in Pixels, h \in Pixels :
            /\ w # term.size_info.width
            /\ resize(term, w, h) = [term EXCEPT !.size_info.width = w,
                                                 !.size_info.height = h]

\* C15: when resize reduces the line count to new_lines >= 1 and the cursor
\* line L satisfies new_lines <= L < num_lines, then afterwards cursor.line
\* is new_lines - 1 and, with k = L - new_lines + 1, each row r in
\* [0, new_lines - 1) of the active grid holds the old row r + k.
C15_ShrinkScrollsContentUp ==
    (Running(term) /\ term.cursor.line < num_lines(term)) =>
        \A h \in TallHeights :
            LET new_lines == h \div term.size_info.cell_height
                L == term.cursor.line
                k == L - new_lines + 1
                t2 == resize(term, term.size_info.width, h)
            IN  (1 <= new_lines /\ new_lines <= L) =>
                    /\ Running(t2)
                    /\ t2.cursor.line = new_lines - 1
                    /\ \A r \in 1 .. new_lines - 1 :
                            t2.grid.raw[r] = term.grid.raw[r + k]

\* Every cell of the row is the cell.
RowAll(row, cell) == \A c \in 1 .. Len(row) : row[c] = cell

\* The scroll region of t is [s, e) with s < e <= num_lines.
RegionValid(t) ==
    /\ t.scroll_region.start < t.scroll_region.end
    /\ t.scroll_region.end <= num_lines(t)

\* C16: linefeed with cursor.line = scroll_region.end - 1 leaves the cursor
\* where it is and scrolls the region [s, e) up by one: every row r in
\* [s, e-1) becomes the old row r + 1, row e - 1 holds only empty cells and
\* every row outside [s, e) is unchanged.
C16_LinefeedAtBottomScrolls ==
    (/\ Running(term)
     /\ RegionValid(term)
     /\ term.cursor.line + 1 = term.scroll_region.end) =>
        LET t2 == linefeed(term)
            s == term.scroll_region.start
            e == term.scroll_region.end
        IN  /\ Running(t2)
            /\ t2.cursor = term.cursor
            /\ \A r \in 0 .. num_lines(term) - 1 :
                    t2.grid.raw[r + 1] =
                        IF s <= r /\ r < e - 1 THEN term.grid.raw[r + 2]
                        ELSE IF r = e - 1
                        THEN [c \in 1 .. num_cols(term) |-> term.empty_cell]
                        ELSE term.grid.raw[r + 1]


\* C17: for a scroll region [s, e) and every n with 2n <= e - s,
\* scroll_up(n) followed by scroll_down(n) leaves every row of [s+n, e-n)
\* as it was, makes the edge rows [s, s+n) and [e-n, e) of the region blank
\* (empty cells) and leaves the rows outside the region unchanged.
C17_ScrollUpThenDown ==
    (Running(term) /\ RegionValid(term)) =>
        \A n \in Args :
            LET s == term.scroll_region.start
                e == term.scroll_region.end
                t2 == scroll_down(scroll_up(term, n), n)
            IN  2 * n <= e - s =>
                    /\ Running(t2)
                    /\ \A r \in 0 .. num_lines(term) - 1 :
                        IF (s <= r /\ r < s + n) \/ (e - n <= r /\ r < e)
                        THEN RowAll(t2.grid.raw[r + 1], term.empty_cell)
                        ELSE t2.grid.raw[r + 1] = term.grid.raw[r + 1]


\* C18: with the cursor in a column c < num_cols, for every count k >= 0
\* (k > num_cols - c included), insert_blank(k) followed by delete_chars(k)
\* completes, leaves cells [0, c) of the current row unchanged, restores
\* cells [c, num_cols - k) to what they were and leaves every other row and
\* the cursor unchanged.
C18_InsertThenDeleteRestores ==
    (/\ Running(term)
     /\ term.cursor.line < num_lines(term)
     /\ term.cursor.col < num_cols(term)) =>
        \A k \in Args :
            LET t2 == delete_chars(insert_blank(term, k), k)
                l == term.cursor.line + 1
            IN  /\ Running(t2)
                /\ t2.cursor = term.cursor
                /\ \A r \in 1 .. num_lines(term) :
                        r # l => t2.grid.raw[r] = term.grid.raw[r]
                /\ \A c \in 0 .. num_cols(term) - 1 :
                        (c < term.cursor.col \/ c + k < num_cols(term)) =>
                            t2.grid.raw[l][c + 1] = term.grid.raw[l][c + 1]


\* The rows of t with the region [s, e) scrolled up by one: rows [s, e-1)
\* take the row below, row e - 1 is blank, the other rows stay.
RowsScrolledUpOne(t) ==
    [l \in 1 .. num_lines(t) |->
        IF t.scroll_region.start < l /\ l < t.scroll_region.end
        THEN t.grid.raw[l + 1]
        ELSE IF l = t.scroll_region.end
        THEN [c \in 1 .. num_cols(t) |-> t.empty_cell]
        ELSE t.grid.raw[l]]

\* The rows with the character ch written at (line, col) with the template.
RowsWithChar(t, rows, line, col, ch) ==
    [rows EXCEPT ![line + 1][col + 1] = [t.template_cell EXCEPT !.c = ch]]

\* C19: pending wrap. input at cursor.col = num_cols - 1 writes the
\* character there and sets col to num_cols without changing the line; the
\* next input first wraps (when cursor.line + 1 = scroll_region.end the
\* region scrolls up by one and the line stays, when cursor.line + 1 <
\* scroll_region.end the line increases by one), then writes its character
\* at column 0 of the resulting line and leaves col = 1.
C19_PendingWrap ==
    (/\ Running(term)
     /\ RegionValid(term)
     /\ term.cursor.line < num_lines(term)
     /\ term.cursor.col + 1 = num_cols(term)) =>
        \A c1 \in Chars, c2 \in Chars :
            LET t1 == input(term, c1)
                t2 == input(t1, c2)
                line == term.cursor.line
                e == term.scroll_region.end
            IN  /\ Running(t1)
                /\ t1.cursor = [line |-> line, col |-> num_cols(term)]
                /\ t1.grid.raw = RowsWithChar(term, term.grid.raw, line,
                                              term.cursor.col, c1)
                /\ line + 1 = e =>
                    /\ Running(t2)
                    /\ t2.cursor = [line |-> line, col |-> 1]
                    /\ t2.grid.raw = RowsWithChar(term, RowsScrolledUpOne(t1),
                                                  line, 0, c2)
                /\ line + 1 < e =>
                    /\ Running(t2)
                    /\ t2.cursor = [line |-> line + 1, col |-> 1]
                    /\ t2.grid.raw = RowsWithChar(term, t1.grid.raw,
                                                  line + 1, 0, c2)


\* C20: insert_blank(count) with the cursor in column c and
\* k = min(count, num_cols - c) completes; afterwards cells [c, c+k) of the
\* current row are the empty cell, cells [c+k, num_cols) are the old cells
\* [c, num_cols - k) in the same order, cells [0, c) are unchanged, every
\* other row is unchanged and the cursor has not moved.
C20_InsertBlankLayout ==
    (/\ Running(term)
     /\ term.cursor.line < num_lines(term)
     /\ term.cursor.col <= num_cols(term)) =>
        \A count \in Args :
            LET t2 == insert_blank(term, count)
                c == term.cursor.col
                k == Min(count, num_cols(term) - c)
                l == term.cursor.line + 1
            IN  /\ Running(t2)
                /\ t2.cursor = term.cursor
                /\ \A r \in 1 .. num_lines(term) :
                        r # l => t2.grid.raw[r] = term.grid.raw[r]
                /\ \A i \in 0 .. num_cols(term) - 1 :
                        t2.grid.raw[l][i + 1] =
                            IF i < c THEN term.grid.raw[l][i + 1]
                            ELSE IF i < c + k THEN term.empty_cell
                            ELSE term.grid.raw[l][i + 1 - k]

\* A written character in front of the cursor is moved two cells to the
\* right and blanks take its place.
C20_Witness ==
    /\ Running(term)
    /\ term.cursor.line < num_lines(term)
    /\ term.cursor.col + 2 < num_cols(term)
    /\ LET l == term.cursor.line + 1
           c == term.cursor.col
           t2 == insert_blank(term, 2)
       IN  /\ term.grid.raw[l][c + 1].c = "a"
           /\ t2.grid.raw[l][c + 3].c = "a"
           /\ t2.grid.raw[l][c + 1] = term.empty_cell
           /\ t2.grid.raw[l][c + 2] = term.empty_cell


\* C21: after a resize that changes the line or column count, every cell of
\* the rows [cursor.line, num_lines), the cursor's own row included and the
\* cursor taken after the resize, is the empty cell in the active and in
\* the alternate grid, and the scroll region is [0, num_lines) for the new
\* num_lines.
C21_ResizeClearsFromCursor ==
    Running(term) =>
        \A w \in Pixels, h \in Pixels :
            LET t2 == resize(term, w, h)
            IN  (/\ Running(t2)
                 /\ \/ num_lines(t2) # num_lines(term)
                    \/ num_cols(t2) # num_cols(term)) =>
                    /\ \A r \in 1 .. num_lines(t2) :
                            r > t2.cursor.line =>
                                /\ RowAll(t2.grid.raw[r], t2.empty_cell)
                                /\ RowAll(t2.alt_grid.raw[r], t2.empty_cell)
                    /\ t2.scroll_region =
                            [start |-> 0, end |-> num_lines(t2)]

\* A resize to another size blanks the row the cursor stays on, which held
\* a written character.
C21_Witness ==
    /\ Running(term)
    /\ term.cursor.line < num_lines(term)
    /\ term.grid.raw[term.cursor.line + 1][1].c = "a"
    /\ \E w \in Pixels, h \in Pixels :
        LET t2 == resize(term, w, h)
        IN  /\ Running(t2)
            /\ num_cols(t2) # num_cols(term)
            /\ t2.cursor.line = term.cursor.line
            /\ t2.cursor.line < num_lines(t2)
            /\ RowAll(t2.grid.raw[t2.cursor.line + 1], t2.empty_cell)
            /\ t2.scroll_region = [start |-> 0, end |-> num_lines(t2)]


\* The results of the scrolling calls on t, for every line count in Args.
ScrollCalls(t) ==
    {scroll_up(t, n) : n \in Args} \cup {scroll_down(t, n) : n \in Args}
    \cup {insert_blank_lines(t, n) : n \in Args}
    \cup {delete_lines(t, n) : n \in Args}
    \cup {linefeed(t), reverse_index(t)}

\* C22: scrolling is confined to the scroll region. For a region [s, e)
\* with s < e <= num_lines and every line count n >= 0 (n > e - s
\* included), scroll_up(n), scroll_down(n), insert_blank_lines(n),
\* delete_lines(n), linefeed and reverse_index leave every row outside
\* [s, e) unchanged and never index a row >= num_lines.
C22_ScrollConfinedToRegion ==
    (/\ Running(term)
     /\ RegionValid(term)
     /\ term.cursor.line < num_lines(term)) =>
        \A t2 \in ScrollCalls(term) :
            /\ Running(t2)
            /\ \A r \in 0 .. num_lines(term) - 1 :
                    (r < term.scroll_region.start
                        \/ r >= term.scroll_region.end) =>
                        t2.grid.raw[r + 1] = term.grid.raw[r + 1]


\* The blank row of t.
BlankRow(t) == [c \in 1 .. num_cols(t) |-> t.empty_cell]

\* C23: with the cursor on line L inside the scroll region [s, e) and
\* n <= e - L, insert_blank_lines(n) makes rows [L, L+n) blank and rows
\* [L+n, e) the old rows [L, e-n); delete_lines(n) makes rows [L, e-n) the
\* old rows [L+n, e) and rows [e-n, e) blank; both leave rows [0, L) and
\* the rows >= e unchanged and do not move the cursor. With the cursor
\* outside the region both change nothing.
C23_InsertDeleteLines ==
    (/\ Running(term)
     /\ RegionValid(term)
     /\ term.cursor.line < num_lines(term)) =>
        \A n \in Args :
            LET L == term.cursor.line
                s == term.scroll_region.start
                e == term.scroll_region.end
                ins == insert_blank_lines(term, n)
                del == delete_lines(term, n)
            IN  IF s <= L /\ L < e
                THEN n <= e - L =>
                    /\ Running(ins) /\ Running(del)
                    /\ ins.cursor = term.cursor
                    /\ del.cursor = term.cursor
                    /\ \A r \in 0 .. num_lines(term) - 1 :
                        /\ ins.grid.raw[r + 1] =
                            IF r < L \/ r >= e THEN term.grid.raw[r + 1]
                            ELSE IF r < L + n THEN BlankRow(term)
                            ELSE term.grid.raw[r + 1 - n]
                        /\ del.grid.raw[r + 1] =
                            IF r < L \/ r >= e THEN term.grid.raw[r + 1]
                            ELSE IF r < e - n THEN term.grid.raw[r + 1 + n]
                            ELSE BlankRow(term)
                ELSE ins = term /\ del = term


\* C24: the alternate grid is cleared on entry and never on exit. Right
\* after a swap_alt that makes alt true every cell of the active grid is
\* the empty cell; a swap_alt that makes alt false changes no cell of
\* either grid, it only exchanges which grid and which cursor are active.
C24_AltClearedOnEntryOnly ==
    Running(term) =>
        LET t2 == swap_alt(term)
        IN  /\ Running(t2)
            /\ t2.alt = ~term.alt
            /\ t2.alt => GridAll(t2.grid, term.empty_cell)
            /\ ~t2.alt =>
                /\ t2.grid = term.alt_grid
                /\ t2.alt_grid = term.grid
                /\ t2.cursor = term.alt_cursor
                /\ t2.alt_cursor = term.cursor

\* The alternate screen is active and holds a written character: the swap
\* out keeps it, and the next swap in clears it.
C24_Witness ==
    /\ Running(term)
    /\ term.alt
    /\ \E l \in 1 .. term.grid.lines : \E c \in 1 .. term.grid.cols :
            /\ term.grid.raw[l][c].c = "a"
            /\ swap_alt(term).alt_grid.raw[l][c].c = "a"
            /\ swap_alt(swap_alt(term)).grid.raw[l][c] = term.empty_cell


\* The set tab stops strictly to the right of column col.
StopsRightOf(t, col) ==
    {c \in col + 1 .. num_cols(t) - 1 : t.tabs[c + 1]}

\* The count-th set tab stop strictly to the right of col, or num_cols when
\* there are fewer than count of them.
NthStopRightOf(t, col, count) ==
    LET S == StopsRightOf(t, col)
    IN  IF Cardinality(S) >= count
        THEN CHOOSE c \in S : Cardinality({d \in S : d <= c}) = count
        ELSE num_cols(t)

\* C25: put_tab(count) with count >= 1 and cursor.col < num_cols advances
\* the cursor to the count-th set tab stop strictly to the right of the
\* starting column, or to num_cols if there are fewer than count such
\* stops, also when the starting column is itself a tab stop; the cursor
\* line and the grid are unchanged.
C25_PutTabAdvances ==
    (Running(term) /\ term.cursor.col < num_cols(term)) =>
        \A count \in TabCounts :
            count >= 1 =>
                LET t2 == put_tab(term, count)
                IN  /\ Running(t2)
                    /\ t2.cursor.col =
                            NthStopRightOf(term, term.cursor.col, count)
                    /\ t2.cursor.line = term.cursor.line
                    /\ t2.grid = term.grid


\* C26: put_tab(count) terminates for every integer count and every cursor
\* column, after at most max(count, 0) iterations of its outer loop; for
\* count <= 0, negative counts included, it returns at once with the cursor
\* unchanged.
C26_PutTabTerminates ==
    Running(term) =>
        \A count \in TabCounts :
            LET t2 == put_tab(term, count)
                iterations == PutTabIterations(term, term.cursor.col, count)
            IN  /\ Running(t2)
                /\ iterations >= 0
                /\ iterations <= (IF count > 0 THEN count ELSE 0)
                /\ count <= 0 => t2.cursor = term.cursor


\* C27: the saved cursor of the inactive screen stays in bounds. After any
\* sequence of handler calls, swap_alt and resize, alt_cursor.line <
\* num_lines and alt_cursor.col <= num_cols, so that a following swap_alt
\* yields an active cursor that addresses a row of the grid.
C27_AltCursorInBounds ==
    Running(term) =>
        /\ term.alt_cursor.line < num_lines(term)
        /\ term.alt_cursor.col <= num_cols(term)
        /\ swap_alt(term).cursor.line < num_lines(swap_alt(term))


\* C28: the alt flag tracks the mode. After
\* set_mode(SwapScreenAndSetRestoreCursor) the alternate screen is active,
\* after unset_mode(SwapScreenAndSetRestoreCursor) the primary screen is
\* active, from every state; a set received on the alternate screen and an
\* unset received on the primary screen switch no screen and clear no
\* grid.
C28_AltTracksMode ==
    Running(term) =>
        LET on == set_mode(term, "SwapScreenAndSetRestoreCursor")
            off == unset_mode(term, "SwapScreenAndSetRestoreCursor")
        IN  /\ Running(on) /\ on.alt
            /\ Running(off) /\ ~off.alt
            /\ term.alt =>
                /\ on.grid = term.grid
                /\ on.alt_grid = term.alt_grid
                /\ on.cursor = term.cursor
            /\ ~term.alt =>
                /\ off.grid = term.grid
                /\ off.alt_grid = term.alt_grid
                /\ off.cursor = term.cursor


\* The empty cell as Term::new makes it: a space in the default colours
\* with no flags.
EmptyAtNew == [CellNew(" ") EXCEPT !.bg = ConfigBg, !.fg = ConfigFg]

\* The cells that occur in a grid.
GridCells(g) == {g.raw[l][c] : l \in 1 .. g.lines, c \in 1 .. g.cols}

\* The results of the calls that blank cells of the active grid.
BlankingCalls(t) ==
    {erase_chars(t, n) : n \in Args}
    \cup {clear_line(t, m) : m \in ClearLineModes}
    \cup {clear_screen(t, m) : m \in ClearModes}
    \cup {insert_blank(t, n) : n \in Args}
    \cup {delete_chars(t, n) : n \in Args}
    \cup {scroll_up(t, n) : n \in Args}
    \cup {scroll_down(t, n) : n \in Args}

\* C29: terminal_attribute(attr) changes only template_cell, for every
\* attr: both grids, both cursors, tabs, mode, scroll_region and empty_cell
\* are unchanged. So empty_cell keeps the value it got at construction,
\* and the cells blanked by erase_chars, clear_line, clear_screen,
\* insert_blank, delete_chars and scrolling carry the default colours and
\* no flags whatever attributes were set before: such a call brings no
\* cell into the grid that was not there, other than that empty cell.
C29_AttributeOnlyTemplate ==
    Running(term) =>
        /\ \A a \in Attrs :
                LET t2 == terminal_attribute(term, a)
                IN  [t2 EXCEPT !.template_cell = term.template_cell] = term
        /\ term.empty_cell = EmptyAtNew
        /\ \A t2 \in BlankingCalls(term) :
                Running(t2) =>
                    GridCells(t2.grid) \subseteq
                        GridCells(term.grid) \cup {EmptyAtNew}

\* An attribute is set in the template, a cell written with it is on the
\* grid, and a clear of the screen leaves only the empty cell of
\* construction.
C29_Witness ==
    /\ Running(term)
    /\ term.template_cell.flags # {}
    /\ \E cell \in GridCells(term.grid) : cell.c = "a" /\ cell.flags # {}
    /\ terminal_attribute(term, <<"Reset">>).template_cell
            # term.template_cell
    /\ GridAll(clear_screen(term, "All").grid, EmptyAtNew)

=============================================================================
